---- MODULE Spec2Model ----
(***************************************************************************)
(* Authentication and RBAC core of enerkomp-be: AuthService, TokenService, *)
(* PasswordService, AuthController, AuthMiddleware, RoleService and        *)
(* RequirePermissionMiddleware, over the Prisma tables User, Token and     *)
(* Permission.                                                             *)
(*                                                                         *)
(* Time is counted in ticks of Date.now(); TicksPerSec ticks make one      *)
(* second, the resolution of a JWT's iat/exp and of a formatted date.      *)
(* The configured lifetimes are numbers of ticks, as the code's are        *)
(* numbers of milliseconds.                                                *)
(***************************************************************************)
EXTENDS Integers, FiniteSets, Sequences, TLC

\* ---------------------------------------------------------------- bounds
MaxClock == 2
MaxRows == 4
MaxUuid == 2
MaxChecks == 3
MaxLateClock == 3
TicksPerSec == 2
ShortAccessLifetime == 1
LongAccessLifetime == 2
RefreshTokenExpiresIn == 2
ResetTokenExpiresIn == 2
ForgotPasswordCooldown == 2

\* ------------------------------------------------------------- constants
NULL == -1
Users == {"u1", "u2"}
Roles == {"r1", "r2"}
UnknownEmail == "nobody@x"
Emails == {"u1@x", "u2@x", UnknownEmail}
Passwords == {"secret1", "secret2"}
Procs == {"p1", "p2"}
Resources == {"client"}
Actions == {"read", "delete", "manage"}
NoCache == [exists |-> FALSE, map |-> {}]
NoRequest == [user |-> "", cache |-> NoCache, checks |-> <<>>]
NoCall == [roleId |-> "", resource |-> "", action |-> "", result |-> FALSE]
\* JwtConfig's secrets: the defaults, and one value set for both
DefaultSecrets ==
    [access |-> "enerkomp_access_secret", refresh |-> "enerkomp_refresh_secret",
     accessExpiresIn |-> ShortAccessLifetime]
SharedSecrets ==
    [access |-> "one_secret", refresh |-> "one_secret",
     accessExpiresIn |-> ShortAccessLifetime]
\* ACCESS_TOKEN_EXPIRES_IN set to a lifetime that outlasts a refresh
LongSessionSecrets == [DefaultSecrets EXCEPT !.accessExpiresIn = LongAccessLifetime]

MsgInvalidCredentials == "Invalid email or password"
MsgLoginRequired == "Email and password are required"
MsgBadAccess == "Invalid or expired access token"
MsgBadPayload == "Invalid token payload"
MsgRevokedAccess == "Invalid or revoked access token"
MsgUserInactive == "User not found or inactive"
MsgTokenRequired == "Access token required"
MsgBadRefresh == "Invalid or expired refresh token"
MsgRefreshRevoked == "Refresh token not found or already revoked"
MsgLogoutInvalid == "Invalid refresh token"
MsgRefreshRequired == "Refresh token required in X-Refresh-Token header or cookie"
MsgResetInvalid == "Invalid or expired reset token"
MsgResetRequired == "Token and new password are required"
MsgForgotGeneric == "If your email is registered, you will receive a password reset link."
\* the messages of the errors Prisma throws when a write does not go through
MsgAuditError == "auditLog.create failed"
MsgDbError == "database write failed"

VARIABLES
    secrets,    \* what JwtConfig read from the environment: secrets, access lifetime
    now,        \* Date.now(), in ticks
    users,      \* table User: id -> row
    ledger,     \* table Token: set of rows; create() never reports a conflict
    nextUuid,   \* next uuidv4() value
    issued,     \* every token string ever returned to a caller
    lastAccess, \* per user, the access token issued to it most recently
    killed,     \* per user, the tokens issued to it before its latest logout
    voided,     \* per user, the tokens issued to it before its latest password reset
    reset,      \* per request slot, a resetPassword call between its read and writes
    resetCount, \* per uuid, the resetPassword calls that succeeded with it
    last,       \* the operation that ran last: input, its kind, the HTTP response
    permissions, \* table Permission: rows {roleId, resource, action}
    reqUser,    \* req.user of the request in progress: its roleId, "" when absent
    reqCache,   \* req._permissionCache of that request
    checks,     \* the permission gates that request has passed through, in order
    resolved,   \* the RoleService.hasPermission call made last, and its result
    parked      \* a second request in flight, while the other one runs

authVars ==
    <<secrets, now, users, ledger, nextUuid, issued, lastAccess, killed, voided,
      reset, resetCount, last>>

permVars == <<permissions, reqUser, reqCache, checks, resolved, parked>>

vars == <<authVars, permVars>>

AccessSecret == secrets.access
RefreshSecret == secrets.refresh
AccessTokenExpiresIn == secrets.accessExpiresIn

\* ---------------------------------------------------------------- tokens
NoToken ==
    [kind |-> "none", sig |-> "", uid |-> "", email |-> "", roleId |-> "",
     iat |-> 0, exp |-> 0, n |-> 0]

\* a string that is no JWT of this service
Garbage == [NoToken EXCEPT !.kind = "garbage"]

\* uuidv4(): the n-th value drawn
Uuid(n) == [NoToken EXCEPT !.kind = "uuid", !.n = n]

NowSec == now \div TicksPerSec

\* jwt.sign(payload, secret, {expiresIn}): HS256 over {payload, iat, exp}; a
\* numeric expiresIn counts seconds; the string is a function of these fields.
JwtSign(payload, secret, expiresIn) ==
    [kind |-> "jwt", sig |-> secret, uid |-> payload.id, email |-> payload.email,
     roleId |-> payload.roleId, iat |-> NowSec, exp |-> NowSec + expiresIn, n |-> 0]

\* generateAccessToken signing with the refresh secret
MutGenerateAccessToken(payload) == JwtSign(payload, RefreshSecret, AccessTokenExpiresIn)

generateAccessToken(payload) == JwtSign(payload, AccessSecret, AccessTokenExpiresIn)

generateRefreshToken(payload) == JwtSign(payload, RefreshSecret, RefreshTokenExpiresIn)

\* jwt.verify(token, secret) does not throw
verifyToken(tok, isRefresh) ==
    /\ tok.kind = "jwt"
    /\ tok.sig = (IF isRefresh THEN RefreshSecret ELSE AccessSecret)
    /\ NowSec < tok.exp

\* --------------------------------------------------------------- password
hash(password) == [bcrypt |-> password]

verify(plain, hashed) ==
    IF plain = "" \/ hashed = [bcrypt |-> ""] THEN FALSE ELSE hashed.bcrypt = plain

\* ------------------------------------------------------------------ rows
\* A row of table Token as token.create writes it. The generated id is left out:
\* the core reads and writes rows by their columns, and by id only the row of a
\* uuid token, which no other row shares.
TokenRow(tok, type, uid, expiresAt) ==
    [token |-> tok, type |-> type, userId |-> uid,
     expiresAt |-> expiresAt, isRevoked |-> FALSE, usedAt |-> NULL]

\* the rows login and refreshAccessToken have written
SessionRows == {r \in ledger : r.type \in {"access_token", "refresh_token"}}

\* prisma.user.findUnique({where: {email, status: "ACTIVE", deletedAt: null}})
ActiveUserByEmail(email) ==
    {u \in Users : /\ users[u].email = email
                   /\ users[u].status = "ACTIVE"
                   /\ users[u].deletedAt = NULL}

\* prisma.user.findUnique({where: {id, status: "ACTIVE", deletedAt: null}})
ActiveUserById(id) ==
    {u \in Users : u = id /\ users[u].status = "ACTIVE" /\ users[u].deletedAt = NULL}

Payload(u) == [id |-> u, email |-> users[u].email, roleId |-> users[u].roleId]

Resp(status, error) ==
    [status |-> status, error |-> error, message |-> "", access |-> NoToken,
     refresh |-> NoToken, active |-> "absent", activeDate |-> NULL]

Last(op, kind, uid, tok, resp) ==
    [op |-> op, kind |-> kind, uid |-> uid, tok |-> tok, resp |-> resp]

\* no request of the core has run since time or a user row last changed
Quiet == Last("none", "none", "", NoToken, Resp(0, ""))

\* ----------------------------------------------------------------- login
\* What the caller presented, by the stored data alone.
LoginKind(email, password) ==
    LET owner == {u \in Users : users[u].email = email} IN
    IF email = "" \/ password = "" THEN "malformed"
    ELSE IF owner = {} THEN "unknown"
    ELSE LET u == CHOOSE x \in owner : TRUE IN
         IF users[u].deletedAt # NULL THEN "deleted"
         ELSE IF users[u].status # "ACTIVE" THEN "inactive"
         ELSE IF users[u].password # hash(password) THEN "wrongpw"
         ELSE "valid"

\* LoginError with a message of its own for an email no active user has
MutLoginError(email, password) ==
    LET found == ActiveUserByEmail(email) IN
    IF found = {} THEN "User not found"
    ELSE IF ~verify(password, users[CHOOSE u \in found : TRUE].password)
         THEN MsgInvalidCredentials
         ELSE ""

\* AuthService.login up to the password check: the error thrown, or "" for none
LoginError(email, password) ==
    LET found == ActiveUserByEmail(email) IN
    IF found = {} THEN MsgInvalidCredentials
    ELSE IF ~verify(password, users[CHOOSE u \in found : TRUE].password)
         THEN MsgInvalidCredentials
         ELSE ""

\* AuthController.login when it does not succeed: the response
LoginFailure(email, password) ==
    IF email = "" \/ password = "" THEN Resp(400, MsgLoginRequired)
    ELSE Resp(401, LoginError(email, password))

LoginFail(email, password) ==
    /\ email = "" \/ password = "" \/ LoginError(email, password) # ""
    /\ last' = Last("login", LoginKind(email, password), "", NoToken,
                    LoginFailure(email, password))
    /\ UNCHANGED <<permVars, secrets, now, users, ledger, nextUuid, issued,
                   lastAccess, killed, voided, reset, resetCount>>

LoginOk(email, password) ==
    /\ email # "" /\ password # ""
    /\ LoginError(email, password) = ""
    /\ Cardinality(SessionRows) + 2 <= MaxRows
    /\ LET u == CHOOSE x \in ActiveUserByEmail(email) : TRUE
           accessToken == generateAccessToken(Payload(u))
           refreshToken == generateRefreshToken(Payload(u))
       IN /\ users' = [users EXCEPT ![u].lastLoginAt = now]
          /\ ledger' = ledger \cup
                {TokenRow(accessToken, "access_token", u,
                          now + AccessTokenExpiresIn),
                 TokenRow(refreshToken, "refresh_token", u,
                          now + RefreshTokenExpiresIn)}
          /\ issued' = issued \cup {accessToken, refreshToken}
          /\ lastAccess' = [lastAccess EXCEPT ![u] = accessToken]
          /\ last' = Last("login", LoginKind(email, password), u, NoToken,
                          [Resp(200, "") EXCEPT !.message = "Login successful",
                                                !.access = accessToken,
                                                !.refresh = refreshToken])
    /\ UNCHANGED <<permVars, secrets, now, nextUuid, killed, voided, reset, resetCount>>

\* login when auditService.log throws: both rows are written, the error reaches
\* the controller and the tokens are not returned
LoginAuditFailed(email, password) ==
    /\ email # "" /\ password # ""
    /\ LoginError(email, password) = ""
    /\ Cardinality(SessionRows) + 2 <= MaxRows
    /\ LET u == CHOOSE x \in ActiveUserByEmail(email) : TRUE
           accessToken == generateAccessToken(Payload(u))
           refreshToken == generateRefreshToken(Payload(u))
       IN /\ users' = [users EXCEPT ![u].lastLoginAt = now]
          /\ ledger' = ledger \cup
                {TokenRow(accessToken, "access_token", u,
                          now + AccessTokenExpiresIn),
                 TokenRow(refreshToken, "refresh_token", u,
                          now + RefreshTokenExpiresIn)}
          /\ last' = Last("login", "audit-failed", u, NoToken,
                          Resp(401, MsgAuditError))
    /\ UNCHANGED <<permVars, secrets, now, nextUuid, issued, lastAccess, killed,
                   voided, reset, 
                   resetCount>>

Login == \E email \in Emails \cup {""}, password \in Passwords \cup {""} :
            LoginFail(email, password) \/ LoginOk(email, password)

\* ------------------------------------------------------ validateAccessToken
\* ActiveAccessRows without the type in the where clause
MutActiveAccessRows(tok) ==
    {r \in ledger : r.token = tok /\ ~r.isRevoked /\ r.expiresAt > now}

\* prisma.token.findFirst({where: {token, type: "access_token",
\*                                 isRevoked: false, expiresAt: {gt: now}}})
ActiveAccessRows(tok) ==
    {r \in ledger : /\ r.token = tok
                    /\ r.type = "access_token"
                    /\ ~r.isRevoked
                    /\ r.expiresAt > now}

\* validateAccessToken without the read of the user row
MutValidateAccessToken(tok) ==
    IF ~verifyToken(tok, FALSE) THEN MsgBadAccess
    ELSE IF tok.uid = "" THEN MsgBadPayload
    ELSE IF ActiveAccessRows(tok) = {} THEN MsgRevokedAccess
    ELSE ""

\* validateAccessToken reading the user row before the ledger
MutValidateUserFirst(tok) ==
    IF ~verifyToken(tok, FALSE) THEN MsgBadAccess
    ELSE IF tok.uid = "" THEN MsgBadPayload
    ELSE IF ActiveUserById(tok.uid) = {} THEN MsgUserInactive
    ELSE IF ActiveAccessRows(tok) = {} THEN MsgRevokedAccess
    ELSE ""

\* AuthService.validateAccessToken: the error thrown, or "" when it returns
validateAccessToken(tok) ==
    IF ~verifyToken(tok, FALSE) THEN MsgBadAccess
    ELSE IF tok.uid = "" THEN MsgBadPayload
    ELSE IF ActiveAccessRows(tok) = {} THEN MsgRevokedAccess
    ELSE IF ActiveUserById(tok.uid) = {} THEN MsgUserInactive
    ELSE ""

\* the tables validateAccessToken has read when it throws or returns, in order
ValidateReads(tok) ==
    IF ~verifyToken(tok, FALSE) THEN <<>>
    ELSE IF tok.uid = "" THEN <<>>
    ELSE IF ActiveAccessRows(tok) = {} THEN <<"token">>
    ELSE <<"token", "user">>

\* the AuthenticatedUser taken from the claims of the token
MutAuthenticatedUser(tok) == [id |-> tok.uid, email |-> tok.email, roleId |-> tok.roleId]

\* the AuthenticatedUser it returns, read from the user row
AuthenticatedUser(tok) ==
    [id |-> tok.uid, email |-> users[tok.uid].email, roleId |-> users[tok.uid].roleId]

\* Why a presented access credential is bad, by the stored data alone.
AuthKind(tok) ==
    IF tok.kind = "none" THEN "missing"
    ELSE IF tok.kind # "jwt" \/ tok.sig # AccessSecret THEN "malformed"
    ELSE IF tok.exp <= NowSec THEN "expired"
    ELSE IF \A r \in ledger : r.token = tok /\ r.type = "access_token" => r.isRevoked
         THEN "revoked"
    ELSE IF \A r \in ledger : r.token = tok /\ r.type = "access_token" /\ ~r.isRevoked
                                 => r.expiresAt <= now
         THEN "lapsed"
    ELSE IF users[tok.uid].status # "ACTIVE" \/ users[tok.uid].deletedAt # NULL
         THEN "inactive"
    ELSE "ok"

\* AuthMiddleware.authenticate: the response it sends (status 0: next() is called)
AuthResponse(tok) ==
    IF tok.kind = "none" THEN Resp(401, MsgTokenRequired)
    ELSE IF validateAccessToken(tok) # "" THEN Resp(401, validateAccessToken(tok))
    ELSE Resp(0, "")

\* what a client can put in a cookie or header
Presentable == issued \cup {Garbage}

Authenticate ==
    \E tok \in Presentable \cup {NoToken} :
        /\ last' = Last("authenticate", AuthKind(tok),
                        IF AuthResponse(tok).status = 0 THEN tok.uid ELSE "",
                        NoToken, AuthResponse(tok))
        /\ UNCHANGED <<permVars, secrets, now, users, ledger, nextUuid, issued,
                       lastAccess, 
                       killed, voided, reset, resetCount>>

\* AuthMiddleware.authenticate with the request it works on: req.user is the
\* AuthenticatedUser when the token is accepted; the request is a new object
AuthenticateRequest ==
    \E tok \in Presentable \cup {NoToken} :
        /\ last' = Last("authenticate", AuthKind(tok),
                        IF AuthResponse(tok).status = 0 THEN tok.uid ELSE "",
                        tok, AuthResponse(tok))
        /\ reqUser' = IF AuthResponse(tok).status = 0
                      THEN AuthenticatedUser(tok).roleId ELSE ""
        /\ reqCache' = NoCache
        /\ checks' = <<>>
        /\ UNCHANGED <<permissions, resolved, parked, secrets, now, users, ledger,
                       nextUuid, issued, lastAccess, killed, voided, reset,
                       resetCount>>

\* ------------------------------------------------------ refreshAccessToken
ActiveRefreshRows(tok) ==
    {r \in ledger : /\ r.token = tok
                    /\ r.userId = tok.uid
                    /\ r.type = "refresh_token"
                    /\ ~r.isRevoked
                    /\ r.expiresAt > now}

\* AuthService.refreshAccessToken: the error thrown, or "" when it returns
refreshError(tok) ==
    IF ~verifyToken(tok, TRUE) THEN MsgBadRefresh
    ELSE IF ActiveRefreshRows(tok) = {} THEN MsgRefreshRevoked
    ELSE ""

\* RevokeAccessTokens revoking the refresh tokens as well
MutRevokeAccessTokens(rows, uid) ==
    {IF r.userId = uid /\ ~r.isRevoked THEN [r EXCEPT !.isRevoked = TRUE] ELSE r
        : r \in rows}

\* updateMany({where: {userId, type: "access_token", isRevoked: false}},
\*            {isRevoked: true})
RevokeAccessTokens(rows, uid) ==
    {IF r.userId = uid /\ r.type = "access_token" /\ ~r.isRevoked
        THEN [r EXCEPT !.isRevoked = TRUE] ELSE r : r \in rows}

RefreshFail(tok) ==
    /\ tok.kind = "none" \/ refreshError(tok) # ""
    /\ last' = Last("refresh", "fail", "", NoToken,
                    IF tok.kind = "none" THEN Resp(400, MsgRefreshRequired)
                    ELSE Resp(401, refreshError(tok)))
    /\ UNCHANGED <<permVars, secrets, now, users, ledger, nextUuid, issued,
                   lastAccess, killed, voided, reset, resetCount>>

RefreshOk(tok) ==
    /\ tok.kind # "none"
    /\ refreshError(tok) = ""
    /\ Cardinality(SessionRows) + 1 <= MaxRows
    /\ LET newAccessToken == generateAccessToken(
                                [id |-> tok.uid, email |-> tok.email,
                                 roleId |-> tok.roleId])
       IN /\ ledger' = RevokeAccessTokens(ledger, tok.uid) \cup
                         {TokenRow(newAccessToken, "access_token", tok.uid,
                                   now + AccessTokenExpiresIn)}
          /\ issued' = issued \cup {newAccessToken}
          /\ lastAccess' = [lastAccess EXCEPT ![tok.uid] = newAccessToken]
          \* tok: the refresh token; uid: its user; kind: whether the prior access
          \* token of that user carries the same issued-at second
          /\ last' = Last("refresh",
                          IF lastAccess[tok.uid].kind = "jwt"
                             /\ lastAccess[tok.uid].iat = NowSec
                          THEN "same-instant" ELSE "later",
                          tok.uid, lastAccess[tok.uid],
                          [Resp(200, "") EXCEPT !.access = newAccessToken])
    /\ UNCHANGED <<permVars, secrets, now, users, nextUuid, killed, voided, reset,
                   resetCount>>

Refresh == \E tok \in Presentable \cup {NoToken} : RefreshFail(tok) \/ RefreshOk(tok)

\* ------------------------------------------------------------------ logout
\* prisma.token.findFirst({where: {token, type: "refresh_token", isRevoked: false}})
LogoutRows(tok) ==
    {r \in ledger : r.token = tok /\ r.type = "refresh_token" /\ ~r.isRevoked}

\* RevokeAllOfUser writing the flag the other way round for rows already revoked
MutRevokeAllOfUser(rows, uid) ==
    {IF r.userId = uid THEN [r EXCEPT !.isRevoked = ~r.isRevoked] ELSE r : r \in rows}

\* updateMany({where: {userId, isRevoked: false}}, {isRevoked: true})
RevokeAllOfUser(rows, uid) ==
    {IF r.userId = uid /\ ~r.isRevoked THEN [r EXCEPT !.isRevoked = TRUE] ELSE r
        : r \in rows}

LogoutFail(tok) ==
    /\ tok.kind = "none" \/ LogoutRows(tok) = {}
    /\ last' = Last("logout", "fail", "", NoToken,
                    IF tok.kind = "none" THEN Resp(400, MsgRefreshRequired)
                    ELSE Resp(400, MsgLogoutInvalid))
    /\ UNCHANGED <<permVars, secrets, now, users, ledger, nextUuid, issued,
                   lastAccess, killed, voided, reset, resetCount>>

LogoutOk(tok) ==
    /\ tok.kind # "none"
    /\ LogoutRows(tok) # {}
    /\ \E tokenRecord \in LogoutRows(tok) :
          /\ ledger' = RevokeAllOfUser(ledger, tokenRecord.userId)
          /\ killed' = [killed EXCEPT ![tokenRecord.userId] =
                           {t \in issued : t.kind = "jwt" /\ t.uid = tokenRecord.userId}]
          /\ last' = Last("logout", "ok", tokenRecord.userId, tok,
                          [Resp(200, "") EXCEPT !.message = "Logged out successfully"])
    /\ UNCHANGED <<permVars, secrets, now, users, nextUuid, issued, lastAccess,
                   voided, reset, 
                   resetCount>>

\* logout when auditService.log throws: the rows are revoked, the error reaches
\* the controller
LogoutAuditFailed(tok) ==
    /\ tok.kind # "none"
    /\ LogoutRows(tok) # {}
    /\ \E tokenRecord \in LogoutRows(tok) :
          /\ ledger' = RevokeAllOfUser(ledger, tokenRecord.userId)
          /\ last' = Last("logout", "audit-failed", tokenRecord.userId, NoToken,
                          Resp(400, MsgAuditError))
    /\ UNCHANGED <<permVars, secrets, now, users, nextUuid, issued, lastAccess,
                   killed, voided, 
                   reset, resetCount>>

Logout == \E tok \in Presentable \cup {NoToken} : LogoutFail(tok) \/ LogoutOk(tok)

\* ---------------------------------------------------------- forgotPassword
\* TimezoneService.toLocalISOString(date, "Asia/Jakarta"): the same instant,
\* written with the zone's offset, milliseconds kept
toLocalISOString(date, tz) == [instant |-> date, zone |-> tz]

\* dayjs(iso).format(): "YYYY-MM-DDTHH:mm:ssZ", the instant cut to whole seconds
dayjsFormat(iso) == iso.instant \div TicksPerSec

\* user.lastForgotAt ? lastForgotAt + forgotPasswordCooldown : null
CooldownEnd(u) ==
    IF users[u].lastForgotAt # NULL
    THEN users[u].lastForgotAt + ForgotPasswordCooldown
    ELSE NULL

\* InCooldown with now <= cooldownEnd
MutInCooldown(u) == CooldownEnd(u) # NULL /\ now <= CooldownEnd(u)

\* cooldownEnd && now < cooldownEnd
InCooldown(u) == CooldownEnd(u) # NULL /\ now < CooldownEnd(u)

ForgotBody(active, activeDate) ==
    [Resp(200, "") EXCEPT !.message = MsgForgotGeneric, !.active = active,
                          !.activeDate = activeDate]

\* AuthController.forgotPassword: the body it answers for an email
ForgotResponse(email) ==
    LET found == ActiveUserByEmail(email) IN
    IF found = {} THEN ForgotBody("false", NULL)
    ELSE LET u == CHOOSE x \in found : TRUE IN
         IF InCooldown(u)
         THEN ForgotBody("true",
                         dayjsFormat(toLocalISOString(CooldownEnd(u), "Asia/Jakarta")))
         ELSE ForgotBody("false", NULL)

\* ForgotCatch passing the failure on to the client
MutForgotCatch == Resp(500, "Failed to send email")

\* AuthController.forgotPassword: the body its catch block answers
ForgotCatch == ForgotBody("false", NULL)

\* no ACTIVE, undeleted user has the email: audit entry, {active: false}
ForgotUnknown(email) ==
    /\ email # ""
    /\ ActiveUserByEmail(email) = {}
    /\ last' = Last("forgot", "unknown", "", NoToken, ForgotResponse(email))
    /\ UNCHANGED <<permVars, secrets, now, users, ledger, nextUuid, issued,
                   lastAccess, killed, voided, reset, 
                   resetCount>>

ForgotCooldown(email) ==
    /\ email # ""
    /\ \E u \in ActiveUserByEmail(email) :
          /\ InCooldown(u)
          /\ last' = Last("forgot", "cooldown", u, NoToken, ForgotResponse(email))
    /\ UNCHANGED <<permVars, secrets, now, users, ledger, nextUuid, issued,
                   lastAccess, killed, voided, reset, 
                   resetCount>>

\* $transaction([token.create, user.update]), then the audit entry, then the
\* e-mail, which may fail (sent = FALSE): the controller's catch block answers
ForgotIssue(email, sent) ==
    /\ email # ""
    /\ nextUuid <= MaxUuid
    /\ \E u \in ActiveUserByEmail(email) :
          /\ ~InCooldown(u)
          /\ ledger' = ledger \cup
                {TokenRow(Uuid(nextUuid), "reset_password", u,
                          now + ResetTokenExpiresIn)}
          /\ users' = [users EXCEPT ![u].lastForgotAt = now]
          /\ last' = Last("forgot", "issue", u, NoToken,
                          IF sent THEN ForgotResponse(email) ELSE ForgotCatch)
    /\ nextUuid' = nextUuid + 1
    /\ issued' = IF sent THEN issued \cup {Uuid(nextUuid)} ELSE issued
    /\ UNCHANGED <<permVars, secrets, now, lastAccess, killed, voided, reset,
                   resetCount>>

\* forgotPassword when auditService.log throws, for an email no user has or
\* after the transaction: the controller's catch block answers, no e-mail is sent
ForgotAuditFailed(email) ==
    /\ email # ""
    /\ \/ /\ ActiveUserByEmail(email) = {}
          /\ last' = Last("forgot", "audit-failed", "", NoToken, ForgotCatch)
          /\ UNCHANGED <<users, ledger, nextUuid>>
       \/ /\ nextUuid <= MaxUuid
          /\ \E u \in ActiveUserByEmail(email) :
                /\ ~InCooldown(u)
                /\ ledger' = ledger \cup
                      {TokenRow(Uuid(nextUuid), "reset_password", u,
                                now + ResetTokenExpiresIn)}
                /\ users' = [users EXCEPT ![u].lastForgotAt = now]
                /\ last' = Last("forgot", "audit-failed", u, NoToken, ForgotCatch)
          /\ nextUuid' = nextUuid + 1
    /\ UNCHANGED <<permVars, secrets, now, issued, lastAccess, killed, voided, reset,
                   resetCount>>

ForgotMalformed ==
    /\ last' = Last("forgot", "malformed", "", NoToken, Resp(400, "Email is required"))
    /\ UNCHANGED <<permVars, secrets, now, users, ledger, nextUuid, issued,
                   lastAccess, killed, voided, reset, 
                   resetCount>>

Forgot ==
    \/ ForgotMalformed
    \/ \E email \in Emails :
          \/ ForgotUnknown(email)
          \/ ForgotCooldown(email)
          \/ \E sent \in BOOLEAN : ForgotIssue(email, sent)

\* ----------------------------------------------------------- resetPassword
\* prisma.token.findFirst({where: {token, type: "reset_password", isRevoked: false,
\*                                 usedAt: null, expiresAt: {gt: now}}})
UsableResetRows(tok) ==
    {r \in ledger : /\ r.token = tok
                    /\ r.type = "reset_password"
                    /\ ~r.isRevoked
                    /\ r.usedAt = NULL
                    /\ r.expiresAt > now}

\* a call not in flight; at: the new Date() a call in flight has taken
Idle == [pc |-> "idle", tok |-> NoToken, uid |-> "", password |-> "", at |-> 0]

\* AuthController.resetPassword up to the service's findFirst
ResetRejected(p, tok, password) ==
    /\ reset[p].pc = "idle"
    /\ \/ /\ tok.kind = "none" \/ password = ""
          /\ last' = Last("reset", "malformed", "", NoToken, Resp(400, MsgResetRequired))
       \/ /\ tok.kind # "none" /\ password # ""
          /\ UsableResetRows(tok) = {}
          /\ last' = Last("reset", "invalid", "", NoToken, Resp(400, MsgResetInvalid))
    /\ UNCHANGED <<permVars, secrets, now, users, ledger, nextUuid, issued,
                   lastAccess, killed, voided, reset, 
                   resetCount>>

\* the findFirst found the row: the call goes on to hash the password
ResetBegin(p, tok, password) ==
    /\ reset[p].pc = "idle"
    /\ tok.kind # "none" /\ password # ""
    /\ \E tokenRecord \in UsableResetRows(tok) :
          reset' = [reset EXCEPT ![p] =
                      [pc |-> "checked", tok |-> tok, uid |-> tokenRecord.userId,
                       password |-> password, at |-> 0]]
    /\ UNCHANGED <<permVars, secrets, now, users, ledger, nextUuid, issued,
                   lastAccess, killed, voided, 
                   resetCount, last>>

\* the three writes of Promise.all: user.update, token.update by id, updateMany
ResetWrites(rows, tok, uid) ==
    {IF r.token = tok /\ r.type = "reset_password"
        THEN [r EXCEPT !.usedAt = now, !.isRevoked = TRUE]
        ELSE IF r.userId = uid /\ r.type \in {"refresh_token", "access_token"}
             THEN [r EXCEPT !.isRevoked = TRUE]
             ELSE r
     : r \in rows}

ResetCommit(p) ==
    /\ reset[p].pc = "checked"
    /\ users' = [users EXCEPT ![reset[p].uid].password = hash(reset[p].password)]
    /\ ledger' = ResetWrites(ledger, reset[p].tok, reset[p].uid)
    /\ resetCount' = [resetCount EXCEPT ![reset[p].tok.n] = @ + 1]
    /\ reset' = [reset EXCEPT ![p] = Idle]
    /\ last' = Last("reset", "ok", reset[p].uid, reset[p].tok,
                    [Resp(200, "") EXCEPT
                        !.message = "Password has been reset successfully"])
    /\ voided' = [voided EXCEPT ![reset[p].uid] =
                     {t \in issued : t.kind = "jwt" /\ t.uid = reset[p].uid}]
    /\ UNCHANGED <<permVars, secrets, now, nextUuid, issued, lastAccess, killed>>

\* resetPassword when auditService.log throws: the three writes are done, the
\* error reaches the controller
ResetAuditFailed(p) ==
    /\ reset[p].pc = "checked"
    /\ users' = [users EXCEPT ![reset[p].uid].password = hash(reset[p].password)]
    /\ ledger' = ResetWrites(ledger, reset[p].tok, reset[p].uid)
    /\ reset' = [reset EXCEPT ![p] = Idle]
    /\ last' = Last("reset", "audit-failed", reset[p].uid, reset[p].tok,
                    Resp(400, MsgAuditError))
    /\ UNCHANGED <<permVars, secrets, now, nextUuid, issued, lastAccess, killed, voided,
                   resetCount>>

\* token.update({where: {id}}, {usedAt: now, isRevoked: true})
ConsumeResetToken(rows, tok) ==
    {IF r.token = tok /\ r.type = "reset_password"
        THEN [r EXCEPT !.usedAt = now, !.isRevoked = TRUE] ELSE r : r \in rows}

\* updateMany({where: {userId, type: {in: [refresh_token, access_token]}}},
\*            {isRevoked: true})
RevokeSessions(rows, uid) ==
    {IF r.userId = uid /\ r.type \in {"refresh_token", "access_token"}
        THEN [r EXCEPT !.isRevoked = TRUE] ELSE r : r \in rows}

ResetWriteNames == {"password", "consume", "revoke"}

\* resetPassword when a write of its Promise.all is rejected: the writes are
\* three statements of their own, those in done go through, the first rejection
\* reaches the controller
ResetPartial(p) ==
    /\ reset[p].pc = "checked"
    /\ \E done \in (SUBSET ResetWriteNames) \ {ResetWriteNames} :
          /\ users' = IF "password" \in done
                       THEN [users EXCEPT
                                ![reset[p].uid].password = hash(reset[p].password)]
                       ELSE users
          /\ ledger' =
                LET consumed == IF "consume" \in done
                                THEN ConsumeResetToken(ledger, reset[p].tok)
                                ELSE ledger
                IN IF "revoke" \in done
                   THEN RevokeSessions(consumed, reset[p].uid) ELSE consumed
          /\ last' = Last("reset", "failed", reset[p].uid, reset[p].tok,
                          Resp(400, MsgDbError))
    /\ reset' = [reset EXCEPT ![p] = Idle]
    /\ UNCHANGED <<permVars, secrets, now, nextUuid, issued, lastAccess, killed, voided,
                   resetCount>>

ResetPassword ==
    \E p \in Procs :
        \/ ResetCommit(p)
        \/ \E tok \in {Uuid(n) : n \in 1..MaxUuid} \cup {Garbage, NoToken},
              password \in Passwords \cup {""} :
                ResetRejected(p, tok, password) \/ ResetBegin(p, tok, password)

\* ------------------------------------------------------- calls in flight
\* refreshAccessToken one await at a time, as two calls in flight see it.
\* The findFirst found the row: the call goes on to the updateMany.
RefreshBegin(p, tok) ==
    /\ reset[p].pc = "idle"
    /\ tok.kind # "none"
    /\ refreshError(tok) = ""
    /\ Cardinality(SessionRows)
          + Cardinality({q \in Procs : reset[q].pc # "idle"}) + 1 <= MaxRows
    /\ reset' = [reset EXCEPT ![p] =
                    [pc |-> "refresh-checked", tok |-> tok, uid |-> tok.uid,
                     password |-> "", at |-> 0]]
    /\ UNCHANGED <<permVars, secrets, now, users, ledger, nextUuid, issued,
                   lastAccess, killed, voided, resetCount, last>>

\* updateMany({where: {userId, type: "access_token", isRevoked: false}})
RefreshRevoke(p) ==
    /\ reset[p].pc = "refresh-checked"
    /\ ledger' = RevokeAccessTokens(ledger, reset[p].uid)
    /\ reset' = [reset EXCEPT ![p].pc = "refresh-revoked"]
    /\ UNCHANGED <<permVars, secrets, now, users, nextUuid, issued, lastAccess,
                   killed, voided, resetCount, last>>

\* generateAccessToken and token.create: the call returns the new token
RefreshCreate(p) ==
    /\ reset[p].pc = "refresh-revoked"
    /\ LET tok == reset[p].tok
           newAccessToken == generateAccessToken(
                                [id |-> tok.uid, email |-> tok.email,
                                 roleId |-> tok.roleId])
       IN /\ ledger' = ledger \cup
                         {TokenRow(newAccessToken, "access_token", tok.uid,
                                   now + AccessTokenExpiresIn)}
          /\ issued' = issued \cup {newAccessToken}
          /\ lastAccess' = [lastAccess EXCEPT ![tok.uid] = newAccessToken]
          /\ last' = Last("refresh", "later", tok.uid, tok,
                          [Resp(200, "") EXCEPT !.access = newAccessToken])
    /\ reset' = [reset EXCEPT ![p] = Idle]
    /\ UNCHANGED <<permVars, secrets, now, users, nextUuid, killed, voided,
                   resetCount>>

\* forgotPassword one await at a time. The findUnique returned an ACTIVE user
\* outside its cooldown: the call takes new Date(), uuidv4() and the expiry, and
\* goes on to the transaction.
ForgotBegin(p, email) ==
    /\ reset[p].pc = "idle"
    /\ email # ""
    /\ nextUuid <= MaxUuid
    /\ \E u \in ActiveUserByEmail(email) :
          /\ ~InCooldown(u)
          /\ reset' = [reset EXCEPT ![p] =
                          [pc |-> "forgot-checked", tok |-> Uuid(nextUuid), uid |-> u,
                           password |-> "", at |-> now]]
    /\ nextUuid' = nextUuid + 1
    /\ UNCHANGED <<permVars, secrets, now, users, ledger, issued, lastAccess,
                   killed, voided, resetCount, last>>

\* $transaction([token.create, user.update]), the audit entry and the e-mail
ForgotWrite(p) ==
    /\ reset[p].pc = "forgot-checked"
    /\ ledger' = ledger \cup
          {TokenRow(reset[p].tok, "reset_password", reset[p].uid,
                    reset[p].at + ResetTokenExpiresIn)}
    /\ users' = [users EXCEPT ![reset[p].uid].lastForgotAt = reset[p].at]
    /\ issued' = issued \cup {reset[p].tok}
    /\ last' = Last("forgot", "issue", reset[p].uid, NoToken, ForgotBody("false", NULL))
    /\ reset' = [reset EXCEPT ![p] = Idle]
    /\ UNCHANGED <<permVars, secrets, now, nextUuid, lastAccess, killed, voided,
                   resetCount>>

\* --------------------------------------------------------- user management
\* UserService.update: an administrator sets the status of a user not deleted
UpdateUserStatus ==
    \E u \in Users, status \in {"ACTIVE", "INACTIVE"} :
        /\ users[u].deletedAt = NULL
        /\ users[u].status # status
        /\ users' = [users EXCEPT ![u].status = status]
        /\ last' = Quiet
        /\ UNCHANGED <<permVars, secrets, now, ledger, nextUuid, issued, lastAccess,
                       killed, voided, reset, 
                       resetCount>>

\* UserService.delete: soft delete
DeleteUser ==
    \E u \in Users :
        /\ users[u].deletedAt = NULL
        /\ users' = [users EXCEPT ![u].deletedAt = now]
        /\ last' = Quiet
        /\ UNCHANGED <<permVars, secrets, now, ledger, nextUuid, issued, lastAccess,
                       killed, voided, reset, 
                       resetCount>>

\* UserService.update: an administrator gives account u1 another role or another
\* email address that no user has
UpdateUserProfile ==
    \E email \in {"u1@x", "u1@y"}, roleId \in Roles :
        /\ users["u1"].deletedAt = NULL
        /\ email # users["u1"].email \/ roleId # users["u1"].roleId
        /\ users' = [users EXCEPT !["u1"].email = email, !["u1"].roleId = roleId]
        /\ last' = Quiet
        /\ UNCHANGED <<permVars, secrets, now, ledger, nextUuid, issued, lastAccess,
                       killed, voided, reset, resetCount>>

\* ------------------------------------------------------------- permissions
\* hasPermission with roleId left out of the where clause
MutHasPermission(roleId, resource, action) ==
    \E row \in permissions : row.resource = resource /\ row.action = action

\* RoleService.hasPermission: permission.findFirst({where: {roleId, resource,
\* action}}) !== null
hasPermission(roleId, resource, action) ==
    \E row \in permissions :
        row.roleId = roleId /\ row.resource = resource /\ row.action = action

\* a direct call of the Resolver
ResolverCall ==
    \E roleId \in Roles, resource \in Resources, action \in Actions :
        /\ resolved' = [roleId |-> roleId, resource |-> resource, action |-> action,
                        result |-> hasPermission(roleId, resource, action)]
        /\ UNCHANGED <<authVars, permissions, reqUser, reqCache, checks, parked>>

\* a request arriving on a cache that outlives the request before it
MutNewRequest ==
    \E roleId \in Roles \cup {""} :
        /\ reqUser' = roleId
        /\ checks' = <<>>
        /\ UNCHANGED <<authVars, permissions, resolved, parked, reqCache>>

\* a request arrives: AuthMiddleware has attached req.user or not; the request
\* object is new, so it has no _permissionCache
NewRequest ==
    \E roleId \in Roles \cup {""} :
        /\ reqUser' = roleId
        /\ reqCache' = NoCache
        /\ checks' = <<>>
        /\ UNCHANGED <<authVars, permissions, resolved, parked>>

\* CacheKey without the action
MutCacheKey(resource, action, roleId) == <<resource, ":", roleId>>

\* `${resource}:${action}:${req.user.roleId}`
CacheKey(resource, action, roleId) == <<resource, ":", action, ":", roleId>>

\* req._permissionCache after "if (!req._permissionCache) = new Map()"
CacheOf(cache) == IF cache.exists THEN cache.map ELSE {}

CacheHas(cache, key) == \E e \in CacheOf(cache) : e.key = key

\* CacheGet answering true for every key held
MutCacheGet(cache, key) == CacheHas(cache, key)

CacheGet(cache, key) == (CHOOSE e \in CacheOf(cache) : e.key = key).value

CacheSet(cache, key, value) ==
    [exists |-> TRUE,
     map |-> {e \in CacheOf(cache) : e.key # key} \cup {[key |-> key, value |-> value]}]

\* One run of the middleware require(resource, action) makes: the status it
\* answers (0: next() is called), the hasPermission calls it made, the cache after
GateRun(resource, action) ==
    LET key == CacheKey(resource, action, reqUser) IN
    IF reqUser = "" THEN
        [status |-> 401, error |-> "Authentication required", calls |-> <<>>,
         cache |-> reqCache]
    ELSE IF CacheHas(reqCache, key) THEN
        [status |-> IF CacheGet(reqCache, key) THEN 0 ELSE 403,
         error |-> IF CacheGet(reqCache, key) THEN "" ELSE "Insufficient permissions",
         calls |-> <<>>,
         cache |-> [exists |-> TRUE, map |-> CacheOf(reqCache)]]
    ELSE IF hasPermission(reqUser, resource, "manage") THEN
        [status |-> 0, error |-> "", calls |-> <<"manage">>,
         cache |-> CacheSet(reqCache, key, TRUE)]
    ELSE
        [status |-> IF hasPermission(reqUser, resource, action) THEN 0 ELSE 403,
         error |-> IF hasPermission(reqUser, resource, action)
                   THEN "" ELSE "Insufficient permissions",
         calls |-> <<"manage", action>>,
         cache |-> CacheSet(reqCache, key, hasPermission(reqUser, resource, action))]

RequirePermission ==
    \E resource \in Resources, action \in Actions :
        /\ Len(checks) < MaxChecks
        /\ LET run == GateRun(resource, action) IN
              /\ reqCache' = run.cache
              /\ checks' = Append(checks,
                                  [resource |-> resource, action |-> action,
                                   status |-> run.status, error |-> run.error,
                                   calls |-> Len(run.calls)])
              /\ resolved' =
                    IF run.calls = <<>> THEN resolved
                    ELSE LET a == run.calls[Len(run.calls)] IN
                         [roleId |-> reqUser, resource |-> resource, action |-> a,
                          result |-> hasPermission(reqUser, resource, a)]
        /\ UNCHANGED <<authVars, permissions, reqUser, parked>>

\* The event loop leaves the request it was running at an await and goes on with
\* the other one in flight. Each request object carries its own user, its own
\* _permissionCache and its own chain of checks.
SwitchRequest ==
    /\ parked' = [user |-> reqUser, cache |-> reqCache, checks |-> checks]
    /\ reqUser' = parked.user
    /\ reqCache' = parked.cache
    /\ checks' = parked.checks
    /\ UNCHANGED <<authVars, permissions, resolved>>

\* ------------------------------------------------------------ environment
Tick == /\ now < MaxClock
        /\ now' = now + 1
        /\ last' = Quiet
        /\ UNCHANGED <<permVars, secrets, users, ledger, nextUuid, issued, lastAccess,
                       killed, voided, reset, resetCount>>

\* time going on past the horizon of the sessions, where the housekeeping runs
LateTick ==
    /\ now >= MaxClock /\ now < MaxLateClock
    /\ now' = now + 1
    /\ last' = Quiet
    /\ UNCHANGED <<permVars, secrets, users, ledger, nextUuid, issued, lastAccess,
                   killed, voided, reset, resetCount>>

\* ------------------------------------------------------------ housekeeping
\* the rows of the first deleteMany: access_token and refresh_token rows whose
\* expiresAt has passed
ExpiredSessionRows(rows) ==
    {r \in rows : r.type \in {"access_token", "refresh_token"} /\ r.expiresAt < now}

\* cleanupExpiredTokens: the table after both deleteMany; stale are the revoked
\* rows whose updatedAt is more than 30 days back
cleanupExpiredTokens(rows, stale) == (rows \ ExpiredSessionRows(rows)) \ stale

\* The job runs. Rows carry no updatedAt here: the rows it finds 30 days old are
\* any of the revoked ones.
Cleanup ==
    \E stale \in {{}, {r \in ledger : r.isRevoked}} :
        /\ ledger' = cleanupExpiredTokens(ledger, stale)
        /\ last' = Last("cleanup", "ok", "", NoToken, Resp(0, ""))
        /\ UNCHANGED <<permVars, secrets, now, users, nextUuid, issued, lastAccess,
                       killed, voided, reset, resetCount>>

AuthTables ==
    /\ now = 0
    /\ users = [u \in Users |->
                  [email |-> IF u = "u1" THEN "u1@x" ELSE "u2@x",
                   password |-> hash("secret1"), status |-> "ACTIVE",
                   deletedAt |-> NULL, roleId |-> IF u = "u1" THEN "r1" ELSE "r2",
                   lastLoginAt |-> NULL, lastForgotAt |-> NULL]]
    /\ ledger = {}
    /\ nextUuid = 1
    /\ issued = {}
    /\ lastAccess = [u \in Users |-> NoToken]
    /\ killed = [u \in Users |-> {}]
    /\ voided = [u \in Users |-> {}]
    /\ reset = [p \in Procs |-> Idle]
    /\ resetCount = [n \in 1..MaxUuid |-> 0]
    /\ last = Quiet

AuthInit == secrets = DefaultSecrets /\ AuthTables

PermIdle ==
    /\ permissions = {}
    /\ reqUser = ""
    /\ reqCache = NoCache
    /\ checks = <<>>
    /\ resolved = NoCall
    /\ parked = NoRequest

Init == AuthInit /\ PermIdle

Next ==
    \/ Tick
    \/ Login
    \/ Authenticate
    \/ Refresh
    \/ Logout
    \/ UpdateUserStatus
    \/ DeleteUser

Spec == Init /\ [][Next]_vars

\* the password-reset flow
ResetNext ==
    \/ Tick
    \/ Forgot
    \/ ResetPassword

SpecReset == Init /\ [][ResetNext]_vars

\* sessions and the password-reset flow together, for one account and one
\* resetPassword call at a time
RecoverNext ==
    \/ Tick
    \/ \E password \in Passwords :
          LoginFail("u1@x", password) \/ LoginOk("u1@x", password)
    \/ Refresh
    \/ Logout
    \/ ForgotCooldown("u1@x")
    \/ ForgotIssue("u1@x", TRUE)
    \/ \E tok \in {Uuid(n) : n \in 1..MaxUuid}, password \in Passwords :
          ResetRejected("p1", tok, password) \/ ResetBegin("p1", tok, password)
    \/ ResetCommit("p1")

SpecRecover == Init /\ [][RecoverNext]_vars

\* the same operations of one account when a collaborator fails: the audit
\* sink, the mailer, a write of the database
FaultNext ==
    \/ Tick
    \/ \E password \in Passwords :
          \/ LoginFail("u1@x", password)
          \/ LoginOk("u1@x", password)
          \/ LoginAuditFailed("u1@x", password)
    \/ \E tok \in Presentable : LogoutFail(tok) \/ LogoutOk(tok) \/ LogoutAuditFailed(tok)
    \/ ForgotCooldown("u1@x")
    \/ \E sent \in BOOLEAN : ForgotIssue("u1@x", sent)
    \/ \E email \in {"u1@x", UnknownEmail} : ForgotAuditFailed(email)
    \/ \E tok \in {Uuid(n) : n \in 1..MaxUuid}, password \in Passwords :
          ResetRejected("p1", tok, password) \/ ResetBegin("p1", tok, password)
    \/ ResetCommit("p1")
    \/ ResetAuditFailed("p1")
    \/ ResetPartial("p1")

SpecFault == Init /\ [][FaultNext]_vars

\* the session operations of one account and the tokens of all three classes,
\* under the default secrets and under one secret for both classes
ClassInit ==
    /\ secrets \in {DefaultSecrets, SharedSecrets}
    /\ AuthTables
    /\ PermIdle

ClassNext ==
    \/ Tick
    \/ \E password \in Passwords :
          LoginFail("u1@x", password) \/ LoginOk("u1@x", password)
    \/ Authenticate
    \/ Refresh
    \/ Logout
    \/ ForgotIssue("u1@x", TRUE)

SpecClass == ClassInit /\ [][ClassNext]_vars

\* the operations of one account with the cleanup job running among them
CleanupNext ==
    \/ Tick
    \/ LateTick
    \/ \E password \in Passwords : LoginOk("u1@x", password)
    \/ Refresh
    \/ Logout
    \/ ForgotIssue("u1@x", TRUE)
    \/ \E tok \in {Uuid(n) : n \in 1..MaxUuid} : ResetBegin("p1", tok, "secret2")
    \/ ResetCommit("p1")
    \/ Cleanup

SpecCleanup == Init /\ [][CleanupNext]_vars

\* One account logs in, then refreshes in two calls at once and logs out, with
\* an access lifetime that outlasts the refresh. No login while a refresh is in
\* flight or after a logout.
RaceInit == secrets = LongSessionSecrets /\ AuthTables /\ PermIdle

RaceNext ==
    \/ Tick
    \/ /\ \A p \in Procs : reset[p].pc = "idle"
       /\ killed["u1"] = {}
       /\ LoginOk("u1@x", "secret1")
    \/ \E p \in Procs :
          \/ \E tok \in Presentable : RefreshBegin(p, tok)
          \/ RefreshRevoke(p)
          \/ RefreshCreate(p)
    \/ Logout

SpecRace == RaceInit /\ [][RaceNext]_vars

\* forgotPassword for one account in two calls at once, and the reset links used
ThrottleNext ==
    \/ Tick
    \/ ForgotCooldown("u1@x")
    \/ \E p \in Procs :
          \/ ForgotBegin(p, "u1@x")
          \/ ForgotWrite(p)
          \/ \E tok \in {Uuid(n) : n \in 1..MaxUuid} : ResetBegin(p, tok, "secret2")
          \/ ResetCommit(p)

SpecThrottle == Init /\ [][ThrottleNext]_vars

\* an account that asked for a reset link is deactivated, reactivated or deleted
\* by an administrator before or after the link is used
DeactivateNext ==
    \/ Tick
    \/ \E password \in Passwords :
          LoginFail("u1@x", password) \/ LoginOk("u1@x", password)
    \/ ForgotUnknown("u1@x")
    \/ ForgotIssue("u1@x", TRUE)
    \/ UpdateUserStatus
    \/ DeleteUser
    \/ \E tok \in {Uuid(n) : n \in 1..MaxUuid} :
          ResetRejected("p1", tok, "secret2") \/ ResetBegin("p1", tok, "secret2")
    \/ ResetCommit("p1")

SpecDeactivate == Init /\ [][DeactivateNext]_vars

\* one account whose role and email an administrator changes between its requests
IdentityNext ==
    \/ Tick
    \/ \E password \in Passwords :
          LoginFail("u1@x", password) \/ LoginOk("u1@x", password)
    \/ Refresh
    \/ UpdateUserProfile
    \/ AuthenticateRequest

SpecIdentity == Init /\ [][IdentityNext]_vars

\* the permission pipeline, for every content of table Permission
PermissionRows ==
    {[roleId |-> r, resource |-> res, action |-> a] :
        r \in Roles, res \in Resources, a \in Actions}

PermInit ==
    /\ AuthInit
    /\ permissions \in SUBSET PermissionRows
    /\ reqUser = ""
    /\ reqCache = NoCache
    /\ checks = <<>>
    /\ resolved = NoCall
    /\ parked = NoRequest

PermNext ==
    \/ NewRequest
    \/ RequirePermission
    \/ ResolverCall

SpecPerm == PermInit /\ [][PermNext]_vars

\* two requests in flight, their checks interleaved
InterleaveNext ==
    \/ NewRequest
    \/ RequirePermission
    \/ SwitchRequest

\* every table Permission that grants to role r1 only
InterleaveInit ==
    /\ PermInit
    /\ \A row \in permissions : row.roleId = "r1"

SpecInterleave == InterleaveInit /\ [][InterleaveNext]_vars

\* ============================================================== properties
InvalidKinds == {"unknown", "wrongpw", "inactive", "deleted"}

\* C1: login answers every invalid combination - unknown email, wrong password,
\* account not ACTIVE, account soft-deleted - with the same status and the same
\* message; the message for an unknown email is the one for a wrong password.
C1_LoginFailuresUniform ==
    /\ \A e1, e2 \in Emails, p1, p2 \in Passwords :
          (LoginKind(e1, p1) \in InvalidKinds /\ LoginKind(e2, p2) \in InvalidKinds)
             => /\ LoginError(e1, p1) # ""
                /\ LoginFailure(e1, p1) = LoginFailure(e2, p2)
    /\ (last.op = "login" /\ last.kind \in InvalidKinds)
          => /\ last.resp.status = 401
             /\ last.resp = LoginFailure(UnknownEmail, "secret1")

\* a wrong password was just refused while the other account is inactive or
\* soft-deleted
C1_Witness ==
    /\ last.op = "login" /\ last.kind = "wrongpw"
    /\ \E e \in Emails, pw \in Passwords :
          LoginKind(e, pw) \in {"inactive", "deleted"}

LiveRow(tok, type) ==
    \E r \in ledger :
        r.token = tok /\ r.type = type /\ ~r.isRevoked /\ r.expiresAt > now

\* C2: a login with the correct password of an ACTIVE, undeleted user succeeds,
\* and in the state it leaves validateAccessToken accepts the returned access
\* token and the ledger holds a live row for each of the two returned tokens.
C2_LoginThenValid ==
    last.op = "login" =>
        /\ last.kind = "valid" => last.resp.status = 200
        /\ last.resp.status = 200 =>
              /\ last.kind = "valid"
              /\ validateAccessToken(last.resp.access) = ""
              /\ LiveRow(last.resp.access, "access_token")
              /\ LiveRow(last.resp.refresh, "refresh_token")

\* a second login of the same user, after its first session was logged out
C2_Witness ==
    /\ last.op = "login" /\ last.resp.status = 200
    /\ \E r \in ledger : r.userId = last.uid /\ r.isRevoked

\* C3: once a logout of a user has succeeded, validateAccessToken refuses every
\* access token and refreshAccessToken every refresh token that was issued to
\* the user before that logout, whichever login or refresh issued it.
C3_LogoutKillsAll ==
    \A u \in Users : \A t \in killed[u] :
        /\ validateAccessToken(t) # ""
        /\ refreshError(t) # ""

\* C4: after a successful refreshAccessToken for a user who is ACTIVE and not
\* deleted, the access token issued to that user immediately before is refused
\* by validateAccessToken and the new one is accepted, whenever the prior token
\* was minted.
C4_RefreshRotates ==
    (/\ last.op = "refresh" /\ last.resp.status = 200
     /\ last.tok.kind = "jwt"
     /\ ActiveUserById(last.uid) # {})
        => /\ validateAccessToken(last.tok) # ""
           /\ validateAccessToken(last.resp.access) = ""

\* C5: a reset_password token changes a password at most once, however two
\* resetPassword calls presenting it interleave.
C5_SingleUse == \A n \in 1..MaxUuid : resetCount[n] <= 1

\* C6: a forgotPassword call for an ACTIVE account inside the cooldown window of
\* its last issued token answers active=true with the window's end as activeDate
\* and writes nothing; outside the window it answers active=false, adds exactly
\* one usable reset_password row and sets lastForgotAt to now; lastForgotAt, and
\* with it activeDate, never decreases.
C6_ForgotStep ==
    \A u \in Users :
        (/\ last'.op = "forgot" /\ last'.uid = u
         /\ last' # last \/ ledger' # ledger \/ users' # users)
        => IF /\ users[u].lastForgotAt # NULL
              /\ now < users[u].lastForgotAt + ForgotPasswordCooldown
           THEN /\ last'.resp.status = 200 /\ last'.resp.active = "true"
                /\ last'.resp.activeDate =
                      (users[u].lastForgotAt + ForgotPasswordCooldown) \div TicksPerSec
                /\ ledger' = ledger
                /\ users' = users
           ELSE /\ last'.resp.status = 200 /\ last'.resp.active = "false"
                /\ \E row \in ledger' \ ledger :
                      /\ ledger' = ledger \cup {row}
                      /\ row.type = "reset_password" /\ row.userId = u
                      /\ ~row.isRevoked /\ row.usedAt = NULL /\ row.expiresAt > now
                      /\ row.token \notin {r.token : r \in ledger}
                /\ users' = [users EXCEPT ![u].lastForgotAt = now]

C6_ForgotThrottle ==
    [][/\ C6_ForgotStep
       /\ \A u \in Users : users'[u].lastForgotAt >= users[u].lastForgotAt]_vars

\* a call inside the window of the second token issued to an account, the
\* first window having elapsed
C6_Witness ==
    /\ last.op = "forgot" /\ last.kind = "cooldown"
    /\ Cardinality({r \in ledger : r.type = "reset_password"
                                     /\ r.userId = last.uid}) = 2

HasRow(roleId, resource, action) ==
    [roleId |-> roleId, resource |-> resource, action |-> action] \in permissions

SameGate(i, j) ==
    checks[i].resource = checks[j].resource /\ checks[i].action = checks[j].action

C9_Uniform401 ==
    (last.op = "authenticate" /\ last.resp.status # 0 /\ last.kind # "missing")
        => \A tok \in Presentable :
              AuthResponse(tok).status # 0 => AuthResponse(tok) = last.resp

\* C10: the forgot-password endpoint answers a registered ACTIVE email with the
\* body it answers an unregistered email with.
C10_ForgotUniform ==
    (last.op = "forgot" /\ last.kind \in {"cooldown", "issue"})
        => last.resp = ForgotResponse(UnknownEmail)

\* C11: while a user is not ACTIVE or is soft-deleted, validateAccessToken refuses
\* every access token of that user, those issued before the deactivation and
\* those refreshAccessToken minted after it alike; the authentication gate lets
\* a token through only for a user that is ACTIVE and not deleted.
C11_NoTokenOutlivesDeactivation ==
    /\ \A u \in Users :
          ActiveUserById(u) = {} =>
              \A t \in issued :
                  (t.kind = "jwt" /\ t.uid = u) => validateAccessToken(t) # ""
    /\ (last.op = "authenticate" /\ last.resp.status = 0)
          => ActiveUserById(last.uid) # {}

\* a refresh has just minted an access token for a deactivated user: the token
\* verifies and its ledger row is live
C11_Witness ==
    /\ last.op = "refresh" /\ last.resp.status = 200
    /\ ActiveUserById(last.uid) = {}
    /\ verifyToken(last.resp.access, FALSE)
    /\ LiveRow(last.resp.access, "access_token")

\* a resetPassword call that succeeds leaves login accepting the password it was
\* given and no other
C12_NewPasswordOnly ==
    \A p \in Procs :
        (reset[p].pc = "checked" /\ reset'[p].pc = "idle" /\ last'.resp.status = 200)
        => \A e \in Emails, given \in Passwords, pw \in Passwords :
              (e = users[reset[p].uid].email /\ given = reset[p].password)
              => ((LoginError(e, pw) = "")' <=> pw = given)

\* the tokens issued to a user before its latest successful resetPassword are
\* refused by validateAccessToken, by refreshAccessToken and by logout
C12_OldTokensDead ==
    \A u \in Users : \A t \in voided[u] :
        /\ validateAccessToken(t) # ""
        /\ refreshError(t) # ""
        /\ LogoutRows(t) = {}

\* C12: once resetPassword has succeeded for a user, every access and refresh
\* token issued to the user before it is refused by validateAccessToken,
\* refreshAccessToken and logout, and login accepts the new password only.
C12_ResetEndsSessions == [][C12_NewPasswordOnly /\ C12_OldTokensDead']_vars

\* C13: login, logout, forgotPassword and resetPassword answer as they do on
\* success when AuditService.log throws: status 200, and for login the token pair.
C13_AuditFailureHarmless ==
    last.kind = "audit-failed" =>
        /\ last.resp.status = 200
        /\ last.op = "login" =>
              last.resp.access.kind = "jwt" /\ last.resp.refresh.kind = "jwt"

\* C14: a forgotPassword call that has created a reset token answers 200 with the
\* generic body and active=false whether or not EmailService.send threw, and the
\* token row and the lastForgotAt stamp it wrote stay as written.
C14_EmailFailureHidden ==
    (last.op = "forgot" /\ last.kind = "issue") =>
        /\ last.resp = [Resp(200, "") EXCEPT !.message = MsgForgotGeneric,
                                             !.active = "false"]
        /\ \E r \in ledger :
              /\ r.token = Uuid(nextUuid - 1) /\ r.type = "reset_password"
              /\ r.userId = last.uid
              /\ ~r.isRevoked /\ r.usedAt = NULL /\ r.expiresAt > now
        /\ users[last.uid].lastForgotAt = now

\* a reset token was just created and its e-mail was not sent
C14_Witness ==
    /\ last.op = "forgot" /\ last.kind = "issue"
    /\ Uuid(nextUuid - 1) \notin issued

\* C15: a logout succeeds only for a token that has a refresh_token row neither
\* revoked nor past its expiresAt; a logout that fails revokes nothing.
C15_LogoutNeedsActiveRow ==
    [][/\ (last'.op = "logout" /\ last'.resp.status = 200 /\ ledger' # ledger)
          => \E r \in ledger :
                /\ r.token = last'.tok /\ r.type = "refresh_token"
                /\ ~r.isRevoked /\ r.expiresAt > now
       /\ (last'.op = "logout" /\ last'.resp.status # 200) => ledger' = ledger]_vars

\* the step is a successful call of op for user uid
DoneFor(op, uid) ==
    last'.op = op /\ last'.uid = uid /\ last'.resp.status = 200 /\ ledger' # ledger

\* C16: a refresh token that refreshAccessToken accepts is still accepted after
\* every step, a refreshAccessToken call with it included, unless the step is
\* the passing of time up to its expiry or a logout of its user.
C16_RefreshSurvives ==
    [][\A t \in issued :
          (t.kind = "jwt" /\ refreshError(t) = "" /\ (refreshError(t) # "")')
          => (now' # now \/ DoneFor("logout", t.uid))]_vars

\* C16 as amended: a refresh token that refreshAccessToken accepts is still
\* accepted after every step, a refreshAccessToken call with it included, unless
\* the step is the passing of time up to its expiry, a logout of its user or a
\* successful resetPassword of its user.
C16_RefreshSurvivesButReset ==
    [][\A t \in issued :
          (t.kind = "jwt" /\ refreshError(t) = "" /\ (refreshError(t) # "")')
          => (now' # now \/ DoneFor("logout", t.uid) \/ DoneFor("reset", t.uid))]_vars

\* a resetPassword has just revoked, before its expiry, a refresh token that had
\* been used for a refreshAccessToken call
C16_Witness ==
    /\ last.op = "reset" /\ last.resp.status = 200
    /\ \E t \in issued :
          /\ t.uid = last.uid /\ verifyToken(t, TRUE)
          /\ \E r \in ledger :
                /\ r.token = t /\ r.type = "refresh_token"
                /\ r.isRevoked /\ r.expiresAt > now
    /\ Cardinality({r \in ledger : r.type = "access_token"
                                     /\ r.userId = last.uid}) >= 2

IssuedAs(t, type) == \E r \in ledger : r.token = t /\ r.type = type

C18_GateDecision ==
    \A i \in DOMAIN checks :
        LET c == checks[i]
            allowed == \/ HasRow(reqUser, c.resource, "manage")
                       \/ HasRow(reqUser, c.resource, c.action)
        IN /\ c.status = 0 <=> c.error = ""
           /\ reqUser = "" => c.status = 401
           /\ (reqUser # "" /\ allowed) => c.status = 0
           /\ (reqUser # "" /\ ~allowed) =>
                 (c.status = 403 /\ c.error = "Insufficient permissions")

\* one request: a check denied after two hasPermission calls, the same check
\* denied from the cache, and a check allowed by the row for its own action
C18_Witness ==
    /\ Len(checks) = 3
    /\ SameGate(1, 2)
    /\ checks[1].status = 403 /\ checks[1].calls = 2
    /\ checks[2].status = 403 /\ checks[2].calls = 0
    /\ checks[3].status = 0 /\ checks[3].calls = 2

\* C19: validateAccessToken checks signature and expiry, then the ledger, then the
\* user: a token that does not verify is refused as invalid or expired with no
\* table read; one that verifies but has no active access_token row is refused
\* as revoked with the ledger read only, whatever the state of its user; only a
\* token with an active row has its user read.
C19_CheckOrder ==
    \A tok \in Presentable :
        IF ~verifyToken(tok, FALSE)
        THEN validateAccessToken(tok) = MsgBadAccess /\ ValidateReads(tok) = <<>>
        ELSE IF \A r \in ledger :
                   (r.token = tok /\ r.type = "access_token")
                   => (r.isRevoked \/ r.expiresAt <= now)
        THEN /\ validateAccessToken(tok) = MsgRevokedAccess
             /\ ValidateReads(tok) = <<"token">>
        ELSE /\ ValidateReads(tok) = <<"token", "user">>
             /\ validateAccessToken(tok) =
                   IF users[tok.uid].status = "ACTIVE" /\ users[tok.uid].deletedAt = NULL
                   THEN "" ELSE MsgUserInactive

\* the gate has just refused, as revoked, a token that verifies, has no active
\* row and belongs to a user who is deactivated or deleted
C19_Witness ==
    /\ last.op = "authenticate" /\ last.resp.error = MsgRevokedAccess
    /\ \E t \in issued :
          /\ verifyToken(t, FALSE)
          /\ ActiveAccessRows(t) = {}
          /\ ActiveUserById(t.uid) = {}
          /\ last.kind = AuthKind(t)

\* C20: a resetPassword call one of whose three writes fails changes neither the
\* password nor any ledger row.
C20_AllOrNothing ==
    [][\A p \in Procs :
          (reset[p].pc = "checked" /\ reset'[p].pc = "idle" /\ last'.kind = "failed")
          => (users' = users /\ ledger' = ledger)]_vars

\* C21: the expiry embedded in an access or refresh token is the instant written
\* as expiresAt to its ledger row: issue time plus the configured lifetime of
\* its class, the number read in one unit by TokenService and by the ledger.
C21_ExpiryMatchesLedger ==
    \A r \in SessionRows :
        r.token.kind = "jwt" => r.token.exp = r.expiresAt \div TicksPerSec

\* what each of the four operations that take a token answers for tok
Outcome(tok) ==
    <<validateAccessToken(tok), refreshError(tok), LogoutRows(tok) = {},
      UsableResetRows(tok) = {}>>

\* C22: a run of cleanupExpiredTokens changes for no token what a following
\* validateAccessToken, refreshAccessToken, logout or resetPassword answers.
C22_CleanupChangesNoOutcome ==
    [][(last'.op = "cleanup" /\ ledger' # ledger)
         => \A tok \in Presentable : Outcome(tok)' = Outcome(tok)]_vars
\* the checks of a request that came to the cache: those not answered 401
OwnKeys(user, chain) ==
    {CacheKey(chain[i].resource, chain[i].action, user) :
        i \in {j \in DOMAIN chain : chain[j].status # 401}}

ScopedToRequest(user, cache, chain) ==
    /\ chain = <<>> => ~cache.exists
    /\ \A e \in CacheOf(cache) : e.key \in OwnKeys(user, chain)
    /\ \A j \in DOMAIN chain :
          (chain[j].status # 401 /\ chain[j].calls = 0)
             => \E i \in 1..(j - 1) :
                   /\ chain[i].resource = chain[j].resource
                   /\ chain[i].action = chain[j].action
                   /\ chain[i].status = chain[j].status

\* C23: the permission cache belongs to one request: it does not exist before the
\* request's first check, every entry in it was written by a check of the same
\* request, and a check answered without a hasPermission call repeats an earlier
\* check of the same request, however the checks of two requests interleave.
C23_CacheRequestScoped ==
    /\ ScopedToRequest(reqUser, reqCache, checks)
    /\ ScopedToRequest(parked.user, parked.cache, parked.checks)

\* two requests of the same role in flight: the one parked has checked read and
\* holds the answer in its cache, the one running then checked read itself and
\* had to call hasPermission
C23_Witness ==
    /\ reqUser = "r1" /\ parked.user = "r1"
    /\ Len(parked.checks) >= 1 /\ Len(checks) >= 1
    /\ parked.checks[1].action = checks[1].action
    /\ parked.cache.exists /\ parked.checks[1].calls >= 1
    /\ checks[Len(checks)].calls >= 1
    /\ \E i \in DOMAIN checks : checks[i].calls = 0 /\ checks[i].status # 401
\* C24: the identity a request gets is read from the user row when the token is
\* validated, not from the claims of the token: after an administrator changed
\* the role or the email of a user, validating a token minted before the change,
\* or one minted by a refresh from a refresh token older than the change, yields
\* the role and the email the row holds now.
C24_IdentityFromUserRow ==
    /\ (last.op = "authenticate" /\ last.resp.status = 0)
          => reqUser = users[last.uid].roleId
    /\ \A tok \in Presentable :
          validateAccessToken(tok) = ""
             => /\ AuthenticatedUser(tok).roleId = users[tok.uid].roleId
                /\ AuthenticatedUser(tok).email = users[tok.uid].email

\* a request was let in with an access token that a refresh minted after the
\* role and the email of its user were changed: the claims of the token are the
\* old ones, req.user has the new role
C24_Witness ==
    /\ last.op = "authenticate" /\ last.resp.status = 0
    /\ last.tok.roleId # reqUser
    /\ last.tok.email # users[last.uid].email
    /\ \E r \in ledger :
          /\ r.token = last.tok /\ r.type = "access_token" /\ ~r.isRevoked
          /\ r.expiresAt > users[last.uid].lastLoginAt + AccessTokenExpiresIn
LiveAccessRows(u) ==
    {r \in ledger : /\ r.userId = u /\ r.type = "access_token"
                    /\ ~r.isRevoked /\ r.expiresAt > now}

\* C25: refresh rotation leaves exactly one live access token: when a
\* refreshAccessToken call has returned, no other one is in progress for the
\* user and nobody has logged in since the first of them began, exactly one
\* access_token row of the user is neither revoked nor expired, for calls one
\* after the other and for two calls interleaved.
C25_OneLiveAccessToken ==
    (/\ last.op = "refresh" /\ last.resp.status = 200
     /\ \A p \in Procs : reset[p].pc = "idle")
        => Cardinality(LiveAccessRows(last.uid)) = 1
\* C26: once a logout of a user has completed, and until the user logs in again,
\* validateAccessToken accepts no access token of that user, also when a
\* refreshAccessToken call had passed its ledger check before the logout revoked
\* the rows and writes its new access token after.
C26_LogoutKillsInFlightRefresh ==
    \A u \in Users :
        killed[u] # {}
            => \A tok \in Presentable : tok.uid = u => validateAccessToken(tok) # ""
UsableResetRowsOf(u) ==
    {r \in ledger : /\ r.userId = u /\ r.type = "reset_password"
                    /\ ~r.isRevoked /\ r.usedAt = NULL /\ r.expiresAt > now}

\* C27: however forgotPassword calls for one ACTIVE account interleave, at most
\* one reset_password token is created in a cooldown window, so the account
\* never has two usable reset_password tokens at the same time.
C27_ThrottleUnderConcurrency ==
    \A u \in Users :
        /\ Cardinality(UsableResetRowsOf(u)) <= 1
        /\ \A r1, r2 \in ledger :
              (/\ r1.type = "reset_password" /\ r2.type = "reset_password"
               /\ r1.userId = u /\ r2.userId = u /\ r1 # r2)
                 => \/ r1.expiresAt >= r2.expiresAt + ForgotPasswordCooldown
                    \/ r2.expiresAt >= r1.expiresAt + ForgotPasswordCooldown
SameRow(r1, r2) ==
    /\ r1.token = r2.token /\ r1.type = r2.type
    /\ r1.userId = r2.userId /\ r1.expiresAt = r2.expiresAt

UsableAt(r, t) == ~r.isRevoked /\ r.usedAt = NULL /\ t < r.expiresAt

\* C28: no operation sets a row's isRevoked back to false, clears a usedAt that
\* is set, or changes its type, owner or expiresAt: every row is, after any step,
\* either deleted by the cleanup or still there with the same token, type, owner
\* and expiresAt, revoked if it was revoked, used when it was used; a row that
\* was not usable is not usable afterwards.
C28_RevocationMonotone ==
    [][\A r \in ledger :
          \/ last'.op = "cleanup" /\ r \notin ledger'
          \/ \E r2 \in ledger' :
                /\ SameRow(r, r2)
                /\ r.isRevoked => r2.isRevoked
                /\ r.usedAt # NULL => r2.usedAt = r.usedAt
                /\ UsableAt(r2, now') => UsableAt(r, now)]_vars

\* a logout has just revoked the rows of a session while the ledger holds a
\* reset_password row that was consumed and the refresh_token row of another
\* session, revoked before
C28_Witness ==
    /\ last.op = "logout" /\ last.resp.status = 200
    /\ \E r \in ledger : r.type = "reset_password" /\ r.usedAt # NULL /\ r.isRevoked
    /\ \E r \in ledger : r.type = "refresh_token" /\ r.isRevoked /\ r.token = last.tok
    /\ \E r \in ledger : r.type = "refresh_token" /\ r.isRevoked /\ r.token # last.tok
\* C29: a successful logout changes only the isRevoked flag of the access_token
\* and refresh_token rows of the user of the presented refresh token: the user
\* records, the rows of other users and the reset_password rows of the same
\* user are as before, and a reset link usable before the logout is usable
\* after it.
C29_LogoutFrame ==
    [][(last'.op = "logout" /\ last'.resp.status = 200)
         => /\ users' = users
            /\ \A r \in ledger :
                  IF r.userId = last'.uid /\ r.type \in {"access_token", "refresh_token"}
                  THEN [r EXCEPT !.isRevoked = TRUE] \in ledger'
                  ELSE r \in ledger'
            /\ \A tok \in {Uuid(n) : n \in 1..MaxUuid} :
                  UsableResetRows(tok) # {} => UsableResetRows(tok)' # {}]_vars
\* C30: resetPassword gets past its token lookup, and so changes a password, only
\* when the owner of the token is ACTIVE and not soft-deleted at the time of the
\* call; for an owner deactivated or deleted after the token was issued it
\* fails, and the password, the reset token and the session tokens stay as they
\* are.
C30_ResetNeedsActiveOwner ==
    [][\A p \in Procs :
          (reset[p].pc = "idle" /\ reset'[p].pc = "checked")
             => ActiveUserById(reset'[p].uid) # {}]_vars
====
